---------------------------- MODULE Spec2Model ----------------------------
(***************************************************************************)
(* A model of src/prolific_helpers.py: helper functions around the         *)
(* Prolific REST API and the tabular export it returns.                    *)
(*                                                                         *)
(* The module is a flat list of independent, synchronous functions.  One   *)
(* action models one whole function call.  The state is the call record    *)
(* (function, arguments, return value or exception, printed lines, HTTP    *)
(* exchanges) plus what outlives a call: the requests the platform has     *)
(* received, the local clock and the number of uuid4() draws.              *)
(*                                                                         *)
(* Strings whose characters the code inspects (column names) are           *)
(* sequences of tokens: the words of the name and the single spaces        *)
(* between them, so that str.startswith is a prefix test.                  *)
(***************************************************************************)
EXTENDS Integers, Sequences, FiniteSets, TLC

VARIABLES
    pc,       \* "ready" before the call, then "returned" or "raised"
    fn,       \* the function of the call
    args,     \* the arguments of the call
    ret,      \* the value returned ("none" while there is none)
    exc,      \* the exception propagated to the caller ("none" if none)
    stdout,   \* the lines print() wrote during the call
    reqs,     \* the HTTP exchanges of the call, in order
    sent,     \* every request the platform has received so far
    now,      \* the local clock, in ticks
    uuids,    \* how many uuid4() values have been drawn so far
    table,    \* the caller's DataFrame object handed to a plotting function
    platform  \* what the remote platform holds: a study and its export

vars ==
    <<pc, fn, args, ret, exc, stdout, reqs, sent, now, uuids, table, platform>>

Range(s) == {s[i] : i \in 1..Len(s)}

SeqsUpTo(S, n) == UNION {[1..k -> S] : k \in 0..n}

(***************************************************************************)
(* find_question_column                                                    *)
(***************************************************************************)

\* str.startswith(prefix)
StartsWith(s, prefix) ==
    /\ Len(s) >= Len(prefix)
    /\ SubSeq(s, 1, Len(prefix)) = prefix

standard_prolific_cols ==
    { <<"Submission", " ", "id">>, <<"Participant", " ", "id">>, <<"Status">>,
      <<"Started", " ", "at">>, <<"Completed", " ", "at">>,
      <<"Time", " ", "taken">>, <<"Age">>, <<"Sex">> }

other_prolific_cols ==
    { <<"Reviewed", " ", "at">>, <<"Archived", " ", "at">>,
      <<"Completion", " ", "code">>, <<"Country", " ", "of", " ", "birth">>,
      <<"Country", " ", "of", " ", "residence">>, <<"Nationality">>,
      <<"Language">>, <<"Student", " ", "status">>,
      <<"Employment", " ", "status">>,
      <<"Long-term", " ", "health", " ", "condition/disability">>,
      <<"Fluent", " ", "languages">>, <<"Sexual", " ", "orientation">>,
      <<"Highest", " ", "education", " ", "level", " ", "completed">>,
      <<"Degree", " ", "subject">>, <<"Work", " ", "role">>,
      <<"Submission", " ", "approval", " ", "rate">> }

custom_prefix == <<"Custom", " ">>

\* the filter of the list comprehension: col is kept as a survey column
is_survey_column_NoPrefixTest(col) ==
    /\ col \notin standard_prolific_cols
    /\ col \notin other_prolific_cols

is_survey_column(col) ==
    /\ col \notin standard_prolific_cols
    /\ ~StartsWith(col, custom_prefix)
    /\ col \notin other_prolific_cols

\* the value returned, or the exception raised, for a column list and a text
find_question_column(columns, question_text) ==
    IF question_text \in Range(columns)
    THEN [exc |-> "none", value |-> question_text]
    ELSE LET survey_columns == SelectSeq(columns, is_survey_column)
         IN  IF survey_columns # <<>>
             THEN [exc |-> "none", value |-> survey_columns[1]]
             ELSE IF columns = <<>>
                  THEN [exc |-> "IndexError", value |-> "none"]
                  ELSE [exc |-> "none", value |-> columns[Len(columns)]]

MaxCols == 3

ColumnNames ==
    { <<"Submission", " ", "id">>, <<"Age">>,
      <<"Country", " ", "of", " ", "birth">>,
      <<"Custom", " ", "study", " ", "tncs", " ", "accepted", " ", "at">>,
      <<"Customer", " ", "rating">>,
      <<"What", " ", "did", " ", "you", " ", "eat?">> }

QuestionTexts == ColumnNames \cup { <<"Which", " ", "meal?">> }

InitColumn ==
    /\ pc = "ready"
    /\ fn = "find_question_column"
    /\ args \in [df_columns : SeqsUpTo(ColumnNames, MaxCols),
                 question_text : QuestionTexts]
    /\ ret = "none"
    /\ exc = "none"
    /\ stdout = <<>>
    /\ reqs = <<>>
    /\ sent = <<>>
    /\ now = 0
    /\ uuids = 0
    /\ table = <<>>
    /\ platform = <<>>

CallFindQuestionColumn ==
    /\ pc = "ready"
    /\ fn = "find_question_column"
    /\ LET r == find_question_column(args.df_columns, args.question_text)
       IN  /\ ret' = r.value
           /\ exc' = r.exc
           /\ pc' = IF r.exc = "none" THEN "returned" ELSE "raised"
    /\ UNCHANGED <<fn, args, stdout, reqs, sent, now, uuids, table, platform>>

NextColumn == CallFindQuestionColumn

SpecColumn == InitColumn /\ [][NextColumn]_vars

\* the columns of a list that neither exclusion set nor the prefix excludes
C1_Excluded(col) ==
    \/ col \in standard_prolific_cols
    \/ col \in other_prolific_cols
    \/ StartsWith(col, <<"Custom", " ">>)

C1_Kept(columns) == {i \in 1..Len(columns) : ~C1_Excluded(columns[i])}

\* C1: for a non-empty column list find_question_column returns the question
\* text when it is one of the column names; otherwise the first column, in
\* column order, that is in neither exclusion set and does not start with
\* 'Custom '; otherwise, when every column is excluded, the last column.
C1_FindQuestionColumn ==
    (fn = "find_question_column" /\ pc # "ready" /\ args.df_columns # <<>>) =>
        LET cols == args.df_columns
            q == args.question_text
        IN  /\ pc = "returned"
            /\ q \in Range(cols) => ret = q
            /\ (q \notin Range(cols) /\ C1_Kept(cols) # {}) =>
                   \E i \in C1_Kept(cols) :
                       /\ \A j \in C1_Kept(cols) : i <= j
                       /\ ret = cols[i]
            /\ (q \notin Range(cols) /\ C1_Kept(cols) = {}) =>
                   ret = cols[Len(cols)]

\* the elimination path skipped a 'Custom ' column and did not fall back
C1_Witness ==
    /\ fn = "find_question_column"
    /\ pc = "returned"
    /\ Len(args.df_columns) = 3
    /\ args.question_text \notin Range(args.df_columns)
    /\ StartsWith(args.df_columns[1], <<"Custom", " ">>)
    /\ ret = args.df_columns[2]
    /\ ret # args.df_columns[3]

(***************************************************************************)
(* age_to_generation                                                       *)
(*                                                                         *)
(* An age is None, a Python number or a string.  A finite number is        *)
(* num / AgeDen; nan and the two infinities are the other float values.    *)
(***************************************************************************)

AgeDen == 2
MaxAge == 81

Finite(n) == [kind |-> "float", cls |-> "finite", num |-> n]
NaN == [kind |-> "float", cls |-> "nan", num |-> 0]
Inf(sign) == [kind |-> "float", cls |-> "inf", num |-> sign]
None == [kind |-> "None"]
Str(text) == [kind |-> "str", text |-> text]

\* float(text) for the strings of the model: the float read, or ValueError
\* for a text that is no number
float_of_str(text) ==
    CASE text = "17"  -> Finite(17 * AgeDen)
      [] text = "18"  -> Finite(18 * AgeDen)
      [] text = " 60 " -> Finite(60 * AgeDen)
      [] text = "nan" -> NaN
      [] text = "inf" -> Inf(1)
      [] OTHER        -> [kind |-> "ValueError"]

\* float(age): the float, or the exception raised
py_float(age) ==
    CASE age.kind = "None"  -> [exc |-> "TypeError", value |-> "none"]
      [] age.kind = "float" -> [exc |-> "none", value |-> age]
      [] age.kind = "str"   ->
            IF float_of_str(age.text).kind = "ValueError"
            THEN [exc |-> "ValueError", value |-> "none"]
            ELSE [exc |-> "none", value |-> float_of_str(age.text)]

\* int(x) for a float x: truncation toward zero; nan and the infinities raise
py_int(x) ==
    CASE x.cls = "nan" -> [exc |-> "ValueError", value |-> 0]
      [] x.cls = "inf" -> [exc |-> "OverflowError", value |-> 0]
      [] x.cls = "finite" ->
            [exc |-> "none",
             value |-> IF x.num >= 0 THEN x.num \div AgeDen
                       ELSE -((-x.num) \div AgeDen)]

\* int(float(age))
int_float(age) ==
    LET f == py_float(age)
    IN  IF f.exc # "none" THEN [exc |-> f.exc, value |-> 0] ELSE py_int(f.value)

generation_label_OffByOne(age_int) ==
    IF age_int <= 18 THEN "Gen Alpha (under 18)"
    ELSE IF age_int <= 27 THEN "Gen Z (18-27)"
    ELSE IF age_int <= 43 THEN "Millennial (28-43)"
    ELSE IF age_int <= 59 THEN "Gen X (44-59)"
    ELSE IF age_int <= 78 THEN "Baby Boomer (60-78)"
    ELSE "Silent Generation (79+)"

\* the if/elif chain over age_int
generation_label(age_int) ==
    IF age_int < 18 THEN "Gen Alpha (under 18)"
    ELSE IF age_int <= 27 THEN "Gen Z (18-27)"
    ELSE IF age_int <= 43 THEN "Millennial (28-43)"
    ELSE IF age_int <= 59 THEN "Gen X (44-59)"
    ELSE IF age_int <= 78 THEN "Baby Boomer (60-78)"
    ELSE "Silent Generation (79+)"

\* the label returned, or the exception that escapes the try block
age_to_generation(age) ==
    LET r == int_float(age)
    IN  IF r.exc \in {"ValueError", "TypeError"}
        THEN [exc |-> "none", value |-> "Unknown"]
        ELSE IF r.exc # "none"
             THEN [exc |-> r.exc, value |-> "none"]
             ELSE [exc |-> "none", value |-> generation_label(r.value)]

AgeStrings == {"abc", "", "17", "18", " 60 ", "nan", "inf"}

Ages ==
    {Finite(n) : n \in (-2 * AgeDen)..(MaxAge * AgeDen)}
        \cup {NaN, Inf(1), Inf(-1), None}
        \cup {Str(t) : t \in AgeStrings}

InitAge ==
    /\ pc = "ready"
    /\ fn = "age_to_generation"
    /\ args \in [age : Ages]
    /\ ret = "none"
    /\ exc = "none"
    /\ stdout = <<>>
    /\ reqs = <<>>
    /\ sent = <<>>
    /\ now = 0
    /\ uuids = 0
    /\ table = <<>>
    /\ platform = <<>>

CallAgeToGeneration ==
    /\ pc = "ready"
    /\ fn = "age_to_generation"
    /\ LET r == age_to_generation(args.age)
       IN  /\ ret' = r.value
           /\ exc' = r.exc
           /\ pc' = IF r.exc = "none" THEN "returned" ELSE "raised"
    /\ UNCHANGED <<fn, args, stdout, reqs, sent, now, uuids, table, platform>>

NextAge == CallAgeToGeneration

SpecAge == InitAge /\ [][NextAge]_vars

\* the six labels with the integer range of each (open: no bound on that side)
C2_Range(label, open, lo, hi) ==
    [label |-> label, open |-> open, lo |-> lo, hi |-> hi]

C2_Ranges ==
    { C2_Range("Gen Alpha (under 18)", "below", 0, 17),
      C2_Range("Gen Z (18-27)", "no", 18, 27),
      C2_Range("Millennial (28-43)", "no", 28, 43),
      C2_Range("Gen X (44-59)", "no", 44, 59),
      C2_Range("Baby Boomer (60-78)", "no", 60, 78),
      C2_Range("Silent Generation (79+)", "above", 79, 0) }

C2_InRange(a, r) ==
    /\ (r.open # "below") => r.lo <= a
    /\ (r.open # "above") => a <= r.hi

\* the whole number of years of a finite age: the greatest integer t with
\* t * AgeDen <= num for an age >= 0, the least with t * AgeDen >= num below 0
C2_Truncated(num) ==
    CHOOSE t \in (-3)..(MaxAge + 1) :
        IF num >= 0
        THEN t * AgeDen <= num /\ num < (t + 1) * AgeDen
        ELSE (t - 1) * AgeDen < num /\ num <= t * AgeDen

\* C2: for every numeric age, age_to_generation returns the one label whose
\* range holds the age truncated to an integer; the six ranges cover every
\* integer with no gap and no overlap.
C2_GenerationByBreakpoints ==
    (fn = "age_to_generation" /\ pc # "ready"
        /\ args.age.kind = "float" /\ args.age.cls = "finite") =>
        LET a == C2_Truncated(args.age.num)
            hit == {r \in C2_Ranges : C2_InRange(a, r)}
        IN  /\ pc = "returned"
            /\ Cardinality(hit) = 1
            /\ \A r \in hit : ret = r.label

\* a fractional age just under a breakpoint is truncated into the lower bucket
C2_Witness ==
    /\ fn = "age_to_generation"
    /\ pc = "returned"
    /\ args.age.kind = "float" /\ args.age.cls = "finite"
    /\ args.age.num = 28 * AgeDen - 1
    /\ ret = "Gen Z (18-27)"

C3_Invalid(age) ==
    \/ age.kind = "None"
    \/ age.kind = "float" /\ age.cls \in {"nan", "inf"}
    \/ age.kind = "str" /\ age.text \in {"abc", ""}

\* C3: for every age value that is not a valid age (None, a non-numeric
\* string, an empty string, a not-a-number value, an infinite value),
\* age_to_generation does not raise and returns 'Unknown'.
C3_InvalidAgeIsUnknown ==
    (fn = "age_to_generation" /\ pc # "ready" /\ C3_Invalid(args.age)) =>
        (pc = "returned" /\ exc = "none" /\ ret = "Unknown")

(***************************************************************************)
(* IEEE-754 binary64 arithmetic, as far as int(reward * 100) needs it.     *)
(*                                                                         *)
(* A natural number below 2^60 is three limbs <<hi, mid, lo>> in base      *)
(* 2^20, so that no intermediate value leaves 32-bit integers.  A          *)
(* positive double is [m, e]: the value m * 2^e with 2^52 <= m < 2^53;     *)
(* zero has m = 0.                                                         *)
(***************************************************************************)

LimbBase == 2 ^ 20

Big(n) == <<0, n \div LimbBase, n % LimbBase>>

BigZero == <<0, 0, 0>>

\* x * c for a small factor c
MulSmall(x, c) ==
    LET lo == x[3] * c
        mid == x[2] * c + lo \div LimbBase
        hi == x[1] * c + mid \div LimbBase
    IN  <<hi, mid % LimbBase, lo % LimbBase>>

\* quotient and remainder of x by a small divisor c
DivSmall(x, c) ==
    LET r1 == x[1] % c
        t2 == r1 * LimbBase + x[2]
        r2 == t2 % c
        t3 == r2 * LimbBase + x[3]
    IN  [q |-> <<x[1] \div c, t2 \div c, t3 \div c>>, r |-> t3 % c]

Inc(x) ==
    IF x[3] + 1 < LimbBase THEN <<x[1], x[2], x[3] + 1>>
    ELSE IF x[2] + 1 < LimbBase THEN <<x[1], x[2] + 1, 0>>
    ELSE <<x[1] + 1, 0, 0>>

IsOdd(x) == x[3] % 2 = 1

\* x >= 2^b, for 40 <= b < 60
AtLeastPow2(x, b) == x[1] >= 2 ^ (b - 40)

\* the int of a natural number that fits one
SmallInt(x) == x[2] * LimbBase + x[3]

\* the double with mantissa m, renormalised when rounding carried to 2^53
Double(m, e) ==
    IF AtLeastPow2(m, 53) THEN [m |-> DivSmall(m, 2).q, e |-> e + 1]
    ELSE [m |-> m, e |-> e]

\* round to nearest, ties to even: q with remainder r out of d
RoundHalfEven(q, r, d) ==
    IF 2 * r > d \/ (2 * r = d /\ IsOdd(q)) THEN Inc(q) ELSE q

\* the double nearest to num * 2^(-s) / den, for num / den > 0: num is doubled
\* (ten doublings at a time while that is short of it) until the quotient has
\* 53 bits, and the quotient is rounded
RECURSIVE NearestQuotient(_, _, _)
NearestQuotient(num, den, s) ==
    LET d == DivSmall(num, den)
    IN  IF AtLeastPow2(d.q, 52)
        THEN Double(RoundHalfEven(d.q, d.r, den), -s)
        ELSE IF AtLeastPow2(d.q, 42)
             THEN NearestQuotient(MulSmall(num, 2), den, s + 1)
             ELSE NearestQuotient(MulSmall(num, 2 ^ 10), den, s + 10)

\* the float a decimal literal with two places denotes: cents / 100
float_literal(cents) ==
    IF cents = 0 THEN [m |-> BigZero, e |-> 0]
    ELSE NearestQuotient(Big(cents), 100, 0)

\* the double nearest to p * 2^e, for an exact product 2^52 <= p < 2^60
RECURSIVE NearestProduct(_, _, _)
NearestProduct(p, e, t) ==
    LET d == DivSmall(p, 2 ^ t)
    IN  IF ~AtLeastPow2(d.q, 53)
        THEN Double(RoundHalfEven(d.q, d.r, 2 ^ t), e + t)
        ELSE NearestProduct(p, e, t + 1)

\* x * c in binary64, for a double x and an int c that a double holds exactly
float_mul(x, c) ==
    IF x.m = BigZero THEN x
    ELSE NearestProduct(MulSmall(x.m, c), x.e, 0)

\* floor(m / 2^n) and whether bits were dropped, ten bits at a time
RECURSIVE ShiftRight(_, _, _)
ShiftRight(m, n, dropped) ==
    IF n = 0 THEN [q |-> m, dropped |-> dropped]
    ELSE LET k == IF n >= 10 THEN 10 ELSE n
             d == DivSmall(m, 2 ^ k)
         IN  ShiftRight(d.q, n - k, dropped \/ d.r # 0)

\* int(x) for a double 0 <= x < 2^31: truncation
float_to_int(x) ==
    IF x.m = BigZero THEN 0
    ELSE SmallInt(ShiftRight(x.m, 0 - x.e, FALSE).q)

\* round(x) for a double 0 <= x < 2^31: to the nearest int, ties to even
float_round(x) ==
    IF x.m = BigZero THEN 0
    ELSE LET a == ShiftRight(x.m, 0 - x.e - 1, FALSE)
             q == DivSmall(a.q, 2)
         IN  SmallInt(IF q.r = 1 /\ (a.dropped \/ IsOdd(q.q))
                      THEN Inc(q.q) ELSE q.q)

\* "reward": int(study_config["reward"] * 100)
reward_in_cents(reward) == float_to_int(float_mul(reward, 100))

(***************************************************************************)
(* The remote API.  A request is answered with a status and a body; the    *)
(* platform chooses both.  requests follows redirects, so the status is    *)
(* that of the final response.                                             *)
(***************************************************************************)

Statuses == {200, 299, 304, 400, 503, 599}

NoData == [kind |-> "none"]

\* a request, with the clock tick at which it was sent
Get(url, at) == [method |-> "GET", url |-> url, data |-> NoData, at |-> at]
Post(url, data, at) == [method |-> "POST", url |-> url, data |-> data, at |-> at]

Exchange(request, status, body) ==
    [request |-> request, status |-> status, body |-> body]

EmptyBody == [kind |-> "empty"]
Json(obj) == [kind |-> "json", obj |-> obj]
Text(csv) == [kind |-> "text", csv |-> csv]

\* Response.raise_for_status(): HTTPError for a 4xx or 5xx status, else nothing
raise_for_status_ClientErrorsOnly(status) == 400 <= status /\ status < 500

raise_for_status(status) == 400 <= status /\ status < 600

\* the outcome of a call: what changes in the call record
Returns(value) == [pc |-> "returned", exc |-> "none", value |-> value]
Raises(exception) == [pc |-> "raised", exc |-> exception, value |-> "none"]

Headers == [Authorization |-> "Token"]

(***************************************************************************)
(* get_researcher_id                                                       *)
(***************************************************************************)

\* what the platform may answer with: the resource, an object without the
\* identifier, or no body at all
ResearcherBodies ==
    {Json([id |-> "researcher-1"]), Json([detail |-> "error"]), EmptyBody}

get_researcher_id(status, body) ==
    IF raise_for_status(status) THEN Raises("HTTPError")
    ELSE IF body.kind # "json" THEN Raises("JSONDecodeError")
    ELSE IF "id" \notin DOMAIN body.obj THEN Raises("KeyError")
    ELSE Returns(body.obj.id)

CallGetResearcherId ==
    /\ pc = "ready"
    /\ fn = "get_researcher_id"
    /\ \E status \in Statuses, body \in ResearcherBodies :
          LET request == Get(<<"users", "me">>, now)
              o == get_researcher_id(status, body)
          IN  /\ reqs' = <<Exchange(request, status, body)>>
              /\ sent' = Append(sent, request)
              /\ pc' = o.pc
              /\ exc' = o.exc
              /\ ret' = o.value
    /\ UNCHANGED <<fn, args, stdout, now, uuids, table, platform>>

(***************************************************************************)
(* create_survey                                                           *)
(*                                                                         *)
(* uuid4() is modelled as never repeating a value: the n-th value drawn    *)
(* is <<"uuid", n>>.                                                       *)
(***************************************************************************)

uuid4(n) == <<"uuid", n>>

\* [str(uuid.uuid4()) for _ in answers], after `drawn` earlier draws
answer_ids_Reused(answers, drawn) ==
    [i \in 1..Len(answers) |-> uuid4(drawn + 1)]

answer_ids(answers, drawn) ==
    [i \in 1..Len(answers) |-> uuid4(drawn + i)]

\* the comprehension over zip(answer_ids, answers)
zip_answers(ids, answers) ==
    [i \in 1..(IF Len(ids) < Len(answers) THEN Len(ids) ELSE Len(answers)) |->
        [id |-> ids[i], value |-> answers[i]]]

\* survey_data, with `drawn` uuid4() values drawn before the call
survey_data(researcher_id, survey_config, drawn) ==
    LET section_id == uuid4(drawn + 1)
        question_id == uuid4(drawn + 2)
        ids == answer_ids(survey_config.answers, drawn + 2)
        question == [id |-> question_id,
                     title |-> survey_config.question_text,
                     type |-> "single",
                     answers |-> zip_answers(ids, survey_config.answers)]
    IN  [researcher_id |-> researcher_id,
         title |-> survey_config.title,
         sections |-> << [id |-> section_id,
                          title |-> survey_config.question_text,
                          questions |-> <<question>>] >>,
         questions |-> <<question>>]

SurveyBodies ==
    {Json([_id |-> "survey-1"]), Json([detail |-> "error"]), EmptyBody}

\* what follows the POST: raise_for_status() and response.json()["_id"]
create_survey(status, body) ==
    IF raise_for_status(status) THEN Raises("HTTPError")
    ELSE IF body.kind # "json" THEN Raises("JSONDecodeError")
    ELSE IF "_id" \notin DOMAIN body.obj THEN Raises("KeyError")
    ELSE Returns(body.obj._id)

CallCreateSurvey ==
    /\ pc = "ready"
    /\ fn = "create_survey"
    /\ \E status \in Statuses, body \in SurveyBodies :
          LET request == Post(<<"surveys">>,
                              survey_data(args.researcher_id,
                                          args.survey_config, uuids),
                              now)
              o == create_survey(status, body)
          IN  /\ reqs' = <<Exchange(request, status, body)>>
              /\ sent' = Append(sent, request)
              /\ pc' = o.pc
              /\ exc' = o.exc
              /\ ret' = o.value
    /\ uuids' = uuids + 2 + Len(args.survey_config.answers)
    /\ UNCHANGED <<fn, args, stdout, now, table, platform>>

(***************************************************************************)
(* create_study                                                            *)
(*                                                                         *)
(* The local clock counts ticks, TicksPerSecond to the second.             *)
(***************************************************************************)

TicksPerSecond == 2

\* datetime.strftime('%Y%m%d_%H%M%S'): the local time to the second
strftime_seconds(t) == <<"%Y%m%d_%H%M%S", t \div TicksPerSecond>>

completion_code_Constant(t) == <<"AI_DAILYLIFE_">>

\* f"AI_DAILYLIFE_{datetime.now().strftime('%Y%m%d_%H%M%S')}"
completion_code(t) == <<"AI_DAILYLIFE_", strftime_seconds(t)>>

\* study_config.get('internal_name_prefix', study_config['name'])
internal_name_prefix(study_config) ==
    IF "internal_name_prefix" \in DOMAIN study_config
    THEN study_config.internal_name_prefix
    ELSE study_config.name

\* study_data; the clock is read at t1 for the completion code and at t2 for
\* the internal name
study_data(survey_id, study_config, project_id, t1, t2) ==
    [name |-> study_config.name,
     internal_name |->
         <<internal_name_prefix(study_config), " ", strftime_seconds(t2)>>,
     description |-> study_config.description,
     external_study_url |-> <<"https://prolific.com/surveys/", survey_id>>,
     completion_codes |->
         << [code |-> completion_code(t1),
             code_type |-> "COMPLETED",
             actions |-> << [action |-> "AUTOMATICALLY_APPROVE"] >>] >>,
     estimated_completion_time |-> study_config.estimated_time,
     max_time |-> study_config.max_time,
     reward |-> reward_in_cents(float_literal(study_config.reward_cents)),
     total_available_places |-> study_config.participants,
     device_compatibility |-> study_config.device_compatibility,
     peripheral_requirements |-> <<>>,
     privacy_notice |-> study_config.privacy_notice,
     project |-> project_id]

StudyBodies ==
    {Json([id |-> "study-1"]), Json([detail |-> "error"]), EmptyBody}

\* what follows the POST: raise_for_status() and study_response.json().get("id")
create_study(status, body) ==
    IF raise_for_status(status) THEN Raises("HTTPError")
    ELSE IF body.kind # "json" THEN Raises("JSONDecodeError")
    ELSE IF "id" \notin DOMAIN body.obj THEN Returns("None")
    ELSE Returns(body.obj.id)

CallCreateStudy ==
    /\ pc = "ready"
    /\ fn = "create_study"
    /\ \E status \in Statuses, body \in StudyBodies, t2 \in {now, now + 1} :
          LET request == Post(<<"studies">>,
                              study_data(args.survey_id, args.study_config,
                                         args.project_id, now, t2),
                              now)
              o == create_study(status, body)
          IN  /\ reqs' = <<Exchange(request, status, body)>>
              /\ sent' = Append(sent, request)
              /\ now' = t2
              /\ pc' = o.pc
              /\ exc' = o.exc
              /\ ret' = o.value
    /\ UNCHANGED <<fn, args, stdout, uuids, table, platform>>

(***************************************************************************)
(* publish_study                                                           *)
(***************************************************************************)

PublishBodies == {Json([status |-> "ACTIVE"]), EmptyBody}

\* what follows the POST: raise_for_status() and the status code
publish_study(status) ==
    IF raise_for_status(status) THEN Raises("HTTPError")
    ELSE Returns(status)

CallPublishStudy ==
    /\ pc = "ready"
    /\ fn = "publish_study"
    /\ \E status \in Statuses, body \in PublishBodies :
          LET request == Post(<<"studies", args.study_id, "transition">>,
                              [action |-> "PUBLISH"], now)
              o == publish_study(status)
          IN  /\ reqs' = <<Exchange(request, status, body)>>
              /\ sent' = Append(sent, request)
              /\ pc' = o.pc
              /\ exc' = o.exc
              /\ ret' = o.value
    /\ UNCHANGED <<fn, args, stdout, now, uuids, table, platform>>

(***************************************************************************)
(* show_study_results                                                      *)
(*                                                                         *)
(* An instant is a number of time units since an epoch, UnitsPerMinute to  *)
(* the minute.  A timestamp text is Iso(t), the ISO-8601 text with a "Z"   *)
(* suffix of the instant t, or a text that is no date; JSON null is Null.  *)
(***************************************************************************)

UnitsPerMinute == 2
MaxInstant == 3

Iso(t) == [kind |-> "iso", t |-> t]
NotADate == [kind |-> "text", t |-> 0]
Null == [kind |-> "null", t |-> 0]
Blank == [kind |-> "blank", t |-> 0]
NaNCell == [kind |-> "nan", t |-> 0]

ZoneNames == {"UTC", "America/Los_Angeles", "Asia/Kolkata"}

\* the UTC offset of a zone at an instant, in time units; Los Angeles moves
\* from UTC-8 to UTC-7 in the middle of the instants of the model
utcoffset(zone, t) ==
    CASE zone = "UTC" -> 0
      [] zone = "America/Los_Angeles" ->
            IF 2 * t < MaxInstant THEN -480 * UnitsPerMinute
            ELSE -420 * UnitsPerMinute
      [] zone = "Asia/Kolkata" -> 330 * UnitsPerMinute

\* astimezone(display_tz).strftime('%d %b %Y, %I:%M %p %Z'): the wall-clock
\* minute in the zone, and the zone
strftime_display(t, zone) ==
    <<"%d %b %Y, %I:%M %p %Z", (t + utcoffset(zone, t)) \div UnitsPerMinute, zone>>

format_0f_Truncating(units) == units \div UnitsPerMinute

\* f"{x:.0f}" of x = units / UnitsPerMinute: the nearest integer, ties to even
format_0f(units) ==
    LET q == units \div UnitsPerMinute
        r == units % UnitsPerMinute
    IN  IF 2 * r > UnitsPerMinute \/ (2 * r = UnitsPerMinute /\ q % 2 = 1)
        THEN q + 1 ELSE q

\* the elapsed minutes printed, from the two instants in UTC
duration_minutes(latest_completion_utc, created_at_utc) ==
    format_0f(latest_completion_utc - created_at_utc)

\* pd.read_csv: the header row names the columns, a blank cell is NaN
read_csv(csv) ==
    [columns |-> csv.header,
     data |-> [i \in 1..Len(csv.rows) |->
                 [j \in 1..Len(csv.rows[i]) |->
                     IF csv.rows[i][j].kind = "blank" THEN NaNCell
                     ELSE csv.rows[i][j]]]]

completed_at == <<"Completed", " ", "at">>

\* df[name]: the values of the first column of that name
column_values(df, name) ==
    LET j == CHOOSE k \in 1..Len(df.columns) : df.columns[k] = name
    IN  [i \in 1..Len(df.data) |-> df.data[i][j]]

\* pd.to_datetime(errors="coerce", utc=True).dropna(): the instants of the
\* values that parse
parsed_times(values) ==
    {values[i].t : i \in {k \in 1..Len(values) : values[k].kind = "iso"}}

Max(S) == CHOOSE x \in S : \A y \in S : y <= x

\* study_info.get(key)
get_or_none(obj, key) ==
    IF key \in DOMAIN obj THEN obj[key] ELSE "None"

\* the five lines printed once the published timestamp is parsed
study_lines(study_info, created_at_utc, zone) ==
    << <<"Study Name", get_or_none(study_info, "name")>>,
       <<"Status", get_or_none(study_info, "status")>>,
       <<"Total Places", get_or_none(study_info, "total_available_places")>>,
       <<"Total Submissions", get_or_none(study_info, "places_taken")>>,
       <<"Created at", strftime_display(created_at_utc, zone)>> >>

Outcome(o, lines, n) ==
    [pc |-> o.pc, exc |-> o.exc, value |-> o.value, stdout |-> lines,
     requests |-> n]

\* once the "Completed at" column is known to exist: the completion times,
\* the lines printed and the table returned
summarise_completions(df, lines, created_at_utc, zone) ==
    LET times == parsed_times(column_values(df, completed_at))
    IN  IF times = {}
        THEN Outcome(Returns(df), Append(lines, <<"No completions yet">>), 2)
        ELSE LET latest_completion_utc == Max(times)
             IN  Outcome(Returns(df),
                     lines \o
                     << <<"Last Response At",
                          strftime_display(latest_completion_utc, zone)>>,
                        <<"Time Lapsed",
                          duration_minutes(latest_completion_utc,
                                           created_at_utc)>> >>,
                     2)

summarise_NoColumnCheck(df, lines, created_at_utc, zone) ==
    IF completed_at \notin Range(df.columns)
    THEN Outcome(Raises("KeyError"), lines, 2)
    ELSE summarise_completions(df, lines, created_at_utc, zone)

\* from the parsed export on: the lines printed and the table returned
summarise(df, lines, created_at_utc, zone) ==
    IF completed_at \notin Range(df.columns)
    THEN Outcome(Returns(df),
                 Append(lines, <<"Completed at column not found">>), 2)
    ELSE summarise_completions(df, lines, created_at_utc, zone)

\* from the parsed published timestamp on
fetch_export(study_info, created_at_utc, zone, status2, body2) ==
    LET lines == study_lines(study_info, created_at_utc, zone)
    IN  IF raise_for_status(status2) THEN Outcome(Raises("HTTPError"), lines, 2)
        ELSE IF body2.kind # "text"
             THEN Outcome(Raises("EmptyDataError"), lines, 2)
             ELSE summarise(read_csv(body2.csv), lines, created_at_utc, zone)

\* the whole function: its outcome, the lines it prints and the number of
\* requests it issues, for the answers the platform gives to the study
\* request and (if it is issued) to the export request
show_study_results(timezone_str, status1, body1, status2, body2) ==
    IF timezone_str \notin ZoneNames
    THEN Outcome(Raises("ZoneInfoNotFoundError"), <<>>, 0)
    ELSE IF raise_for_status(status1) THEN Outcome(Raises("HTTPError"), <<>>, 1)
    ELSE IF body1.kind # "json" THEN Outcome(Raises("JSONDecodeError"), <<>>, 1)
    ELSE LET study_info == body1.obj
             published_iso == IF "published_at" \in DOMAIN study_info
                              THEN study_info.published_at ELSE Null
         IN  IF published_iso.kind = "null"
             THEN Outcome(Raises("AttributeError"), <<>>, 1)
             ELSE IF published_iso.kind # "iso"
             THEN Outcome(Raises("ValueError"), <<>>, 1)
             ELSE fetch_export(study_info, published_iso.t, timezone_str,
                               status2, body2)

CallShowStudyResults ==
    /\ pc = "ready"
    /\ fn = "show_study_results"
    /\ \E status1 \in Statuses, status2 \in Statuses,
          body1 \in {Json(platform.study), EmptyBody},
          body2 \in {Text(platform.export), EmptyBody} :
          LET request1 == Get(<<"studies", args.study_id>>, now)
              request2 == Get(<<"studies", args.study_id, "export">>, now)
              o == show_study_results(args.timezone_str, status1, body1,
                                      status2, body2)
              exchanges == << Exchange(request1, status1, body1),
                              Exchange(request2, status2, body2) >>
          IN  /\ reqs' = SubSeq(exchanges, 1, o.requests)
              /\ sent' = sent \o SubSeq(<<request1, request2>>, 1, o.requests)
              /\ stdout' = o.stdout
              /\ pc' = o.pc
              /\ exc' = o.exc
              /\ ret' = o.value
    /\ UNCHANGED <<fn, args, now, uuids, table, platform>>

(***************************************************************************)
(* One call of one of the five functions that talk to the platform, with   *)
(* the arguments the caller passes and what the platform holds.            *)
(***************************************************************************)

MaxAnswers == 2
MaxCents == 60
MaxRows == 2

AnswerTexts == {"Yes", "No"}

SurveyConfigs ==
    [title : {"AI in daily life"}, question_text : {"Do you use AI?"},
     answers : SeqsUpTo(AnswerTexts, MaxAnswers)]

StudyConfig(cents) ==
    [name |-> "AI study", description |-> "One question",
     reward_cents |-> cents, participants |-> 10, estimated_time |-> 1,
     max_time |-> 5, device_compatibility |-> <<"desktop">>,
     privacy_notice |-> "notice"]

StudyConfigs ==
    {StudyConfig(cents) : cents \in 0..MaxCents}
        \cup {[name |-> "AI study", internal_name_prefix |-> "demo",
               description |-> "One question", reward_cents |-> 100,
               participants |-> 10, estimated_time |-> 1, max_time |-> 5,
               device_compatibility |-> <<"desktop">>,
               privacy_notice |-> "notice"]}

Instants == 0..MaxInstant

TimestampTexts == {Iso(t) : t \in Instants} \cup {NotADate}

StudyInfo(published_at) ==
    [status |-> "ACTIVE", name |-> "AI study", total_available_places |-> 10,
     places_taken |-> 3, published_at |-> published_at]

StudyInfos ==
    {StudyInfo(p) : p \in TimestampTexts \cup {Null}}
        \cup {[status |-> "UNPUBLISHED", name |-> "AI study",
               total_available_places |-> 10, places_taken |-> 0]}

StatusCell == [kind |-> "text", t |-> 0]

\* exports without and with a "Completed at" column
Exports ==
    {[header |-> << <<"Status">> >>, rows |-> [i \in 1..n |-> <<StatusCell>>]] :
        n \in 0..MaxRows}
    \cup
    {[header |-> << <<"Status">>, completed_at >>,
      rows |-> [i \in 1..Len(cells) |-> <<StatusCell, cells[i]>>]] :
        cells \in SeqsUpTo(TimestampTexts \cup {Blank}, MaxRows)}

DefaultPlatform ==
    [study |-> StudyInfo(Iso(0)),
     export |-> [header |-> << <<"Status">>, completed_at >>,
                 rows |-> << <<StatusCell, Iso(1)>> >>]]

TimezoneStrings == ZoneNames \cup {"Mars/Olympus"}

InitCall ==
    \/ /\ fn = "get_researcher_id"
       /\ args = [headers |-> Headers]
       /\ platform = DefaultPlatform
    \/ /\ fn = "create_survey"
       /\ args \in [headers : {Headers}, researcher_id : {"researcher-1"},
                    survey_config : SurveyConfigs]
       /\ platform = DefaultPlatform
    \/ /\ fn = "create_study"
       /\ args \in [headers : {Headers}, survey_id : {"survey-1"},
                    study_config : StudyConfigs, project_id : {"project-1"}]
       /\ platform = DefaultPlatform
    \/ /\ fn = "publish_study"
       /\ args = [headers |-> Headers, study_id |-> "study-1"]
       /\ platform = DefaultPlatform
    \/ /\ fn = "show_study_results"
       /\ args \in [study_id : {"study-1"}, headers : {Headers},
                    timezone_str : TimezoneStrings]
       /\ platform \in [study : StudyInfos, export : Exports]

Init ==
    /\ pc = "ready"
    /\ InitCall
    /\ ret = "none"
    /\ exc = "none"
    /\ stdout = <<>>
    /\ reqs = <<>>
    /\ sent = <<>>
    /\ now = 0
    /\ uuids = 0
    /\ table = <<>>

Next ==
    \/ CallGetResearcherId
    \/ CallCreateSurvey
    \/ CallCreateStudy
    \/ CallPublishStudy
    \/ CallShowStudyResults

Spec == Init /\ [][Next]_vars

\* round(reward * 100), the reward being the float of a two-place literal
C4_Round(cents) == float_round(float_mul(float_literal(cents), 100))

\* C4: for every reward with at most two decimal places, the reward that
\* create_study transmits is the integer round(reward * 100), the exact
\* number of cents.
C4_RewardIsRoundedCents ==
    (fn = "create_study" /\ pc # "ready") =>
        /\ sent[1].data.reward = C4_Round(args.study_config.reward_cents)
        /\ sent[1].data.reward = args.study_config.reward_cents

C5_Success(status) == 200 <= status /\ status < 300

\* the call raised at the i-th request: nothing returned, that request sent
\* once, none after it
C5_Aborted(i) ==
    /\ pc = "raised"
    /\ exc # "none"
    /\ ret = "none"
    /\ i = Len(reqs)
    /\ \A j \in 1..(i - 1) : reqs[j].request # reqs[i].request
    /\ Len(sent) = Len(reqs)

\* C5 as claimed: in each of the five functions, a request answered with a
\* status outside 200-299 makes the function raise at that point: no value
\* is returned, the request is not retried and no later request is issued.
C5_AbortsOnNon2xx ==
    (pc # "ready") =>
        \A i \in 1..Len(reqs) : ~C5_Success(reqs[i].status) => C5_Aborted(i)

\* C5, amended: in each of the five functions, a request answered with a
\* 4xx or 5xx status makes the function raise HTTPError at that point: no
\* value is returned, the request is not retried and no later request is
\* issued.  (A status outside 200-299 that is no 4xx or 5xx, such as 304,
\* does not raise.)
C5_AbortsOnErrorStatus ==
    (pc # "ready") =>
        \A i \in 1..Len(reqs) :
            (400 <= reqs[i].status /\ reqs[i].status < 600) =>
                (C5_Aborted(i) /\ exc = "HTTPError")

\* show_study_results stopped at a failed study request, the export unrequested
C5_Witness ==
    /\ fn = "show_study_results"
    /\ pc = "raised"
    /\ exc = "HTTPError"
    /\ Len(reqs) = 1
    /\ reqs[1].status = 503
    /\ Len(sent) = 1

C6_Line(text) == \E i \in 1..Len(stdout) : stdout[i][1] = text

\* both requests were answered with a 2xx status and the resource
C6_BothSucceeded ==
    /\ Len(reqs) = 2
    /\ \A i \in 1..2 : C5_Success(reqs[i].status)
    /\ reqs[1].body = Json(platform.study)
    /\ reqs[2].body = Text(platform.export)

C6_Degraded ==
    /\ pc = "returned"
    /\ exc = "none"
    /\ ret = [columns |-> platform.export.header, data |-> platform.export.rows]
    /\ C6_Line("Completed at column not found")
    /\ ~C6_Line("Time Lapsed")
    /\ ~C6_Line("Last Response At")

C6_PublishedAbsent ==
    \/ "published_at" \notin DOMAIN platform.study
    \/ platform.study.published_at.kind = "null"

C6_PublishedIso ==
    /\ "published_at" \in DOMAIN platform.study
    /\ platform.study.published_at.kind = "iso"

\* C6 as claimed: when the platform answers the requests of
\* show_study_results with success and the export has no 'Completed at'
\* column, the function does not raise, prints a warning, computes no
\* duration and returns the parsed table unchanged, also when the published
\* timestamp of the study is absent.
C6_DegradesForEveryStudy ==
    (/\ fn = "show_study_results" /\ pc # "ready"
     /\ args.timezone_str \in ZoneNames
     /\ C6_PublishedAbsent \/ C6_PublishedIso
     /\ completed_at \notin Range(platform.export.header)
     /\ \A i \in 1..Len(reqs) : C5_Success(reqs[i].status)
     /\ Len(reqs) >= 1 /\ reqs[1].body = Json(platform.study)
     /\ Len(reqs) >= 2 => reqs[2].body = Text(platform.export))
    => C6_Degraded

\* C6, amended: when both requests of show_study_results succeed and the
\* export has no 'Completed at' column, the function does not raise, prints
\* a warning, computes no duration and returns the parsed table unchanged;
\* the export is requested only if the study carries a published timestamp
\* in ISO form: when it is absent the function raises AttributeError after
\* the study request.
C6_DegradesWhenPublished ==
    (fn = "show_study_results" /\ pc # "ready") =>
        /\ (C6_BothSucceeded /\ completed_at \notin Range(platform.export.header))
               => C6_Degraded
        /\ (/\ args.timezone_str \in ZoneNames
            /\ Len(reqs) >= 1
            /\ C5_Success(reqs[1].status)
            /\ reqs[1].body = Json(platform.study)
            /\ C6_PublishedAbsent)
               => (pc = "raised" /\ exc = "AttributeError" /\ Len(reqs) = 1)

\* a table of two rows without the column came back as parsed
C6_Witness ==
    /\ fn = "show_study_results"
    /\ pc = "returned"
    /\ C6_BothSucceeded
    /\ completed_at \notin Range(platform.export.header)
    /\ Len(platform.export.rows) = 2
    /\ Len(ret.data) = 2
    /\ C6_Line("Completed at column not found")

\* the instants of the 'Completed at' cells of the export that are dates
C7_Completions ==
    {platform.export.rows[i][2].t :
        i \in {k \in 1..Len(platform.export.rows) :
                   platform.export.rows[k][2].kind = "iso"}}

C7_Abs(x) == IF x < 0 THEN -x ELSE x

\* r is the whole number of minutes nearest to `units` time units (the even
\* one of the two when `units` is halfway)
C7_Nearest(r, units) ==
    /\ 2 * C7_Abs(r * UnitsPerMinute - units) <= UnitsPerMinute
    /\ 2 * C7_Abs(r * UnitsPerMinute - units) = UnitsPerMinute => r % 2 = 0

\* C7: when the export has at least one parseable 'Completed at' value, the
\* elapsed time reported is the latest parseable completion minus the
\* published time, both in UTC, in whole minutes; unparseable values are
\* ignored rather than raising; the number does not depend on the display
\* time zone.
C7_ElapsedMinutes ==
    (/\ fn = "show_study_results" /\ pc # "ready"
     /\ C6_BothSucceeded
     /\ completed_at \in Range(platform.export.header)
     /\ C7_Completions # {})
    =>
        /\ pc = "returned"
        /\ \E i \in 1..Len(stdout) :
              /\ stdout[i][1] = "Time Lapsed"
              /\ \A t \in C7_Completions :
                    (\A u \in C7_Completions : u <= t) =>
                        C7_Nearest(stdout[i][2],
                                   t - platform.study.published_at.t)

\* one and a half minutes, shown in a zone off UTC, with an unparseable value
\* beside the completion: 2 minutes
C7_Witness ==
    /\ fn = "show_study_results"
    /\ pc = "returned"
    /\ args.timezone_str = "Asia/Kolkata"
    /\ C6_BothSucceeded
    /\ platform.study.published_at = Iso(0)
    /\ platform.export.rows = << <<StatusCell, NotADate>>,
                                 <<StatusCell, Iso(3)>> >>
    /\ stdout[Len(stdout)] = <<"Time Lapsed", 2>>

\* the answers of the question sent in the payload of create_survey
C8_Answers == sent[1].data.questions[1].answers

\* C8: for every survey configuration with N answers (N >= 0, duplicate
\* texts allowed) the payload that create_survey sends has exactly N answer
\* entries with N pairwise distinct generated identifiers, the i-th entry
\* carrying the i-th answer text.
C8_AnswersInPayload ==
    (fn = "create_survey" /\ pc # "ready") =>
        /\ Len(sent) = 1
        /\ sent[1].data.sections[1].questions = sent[1].data.questions
        /\ Len(C8_Answers) = Len(args.survey_config.answers)
        /\ \A i \in 1..Len(C8_Answers) :
              C8_Answers[i].value = args.survey_config.answers[i]
        /\ \A i, j \in 1..Len(C8_Answers) :
              i # j => C8_Answers[i].id # C8_Answers[j].id

\* two answers of the same text were sent under two identifiers
C8_Witness ==
    /\ fn = "create_survey"
    /\ pc = "returned"
    /\ args.survey_config.answers = <<"Yes", "Yes">>
    /\ Len(C8_Answers) = 2
    /\ C8_Answers[1].id # C8_Answers[2].id
    /\ C8_Answers[1].value = C8_Answers[2].value

(***************************************************************************)
(* Provisioning re-invoked: a caller that calls create_survey and          *)
(* create_study again and again with the same arguments while the local    *)
(* clock advances.                                                         *)
(***************************************************************************)

MaxCalls == 4
MaxClock == 2

ProvisionArgs(f) ==
    IF f = "create_survey"
    THEN [headers |-> Headers, researcher_id |-> "researcher-1",
          survey_config |-> [title |-> "AI in daily life",
                             question_text |-> "Do you use AI?",
                             answers |-> <<"Yes", "No">>]]
    ELSE [headers |-> Headers, survey_id |-> "survey-1",
          study_config |-> StudyConfig(100), project_id |-> "project-1"]

InitProvision ==
    /\ pc = "idle"
    /\ fn = "none"
    /\ args = [headers |-> Headers]
    /\ ret = "none"
    /\ exc = "none"
    /\ stdout = <<>>
    /\ reqs = <<>>
    /\ sent = <<>>
    /\ now = 0
    /\ uuids = 0
    /\ table = <<>>
    /\ platform = DefaultPlatform

\* the caller's script invokes a provisioning function
Invoke ==
    /\ pc \in {"idle", "returned", "raised"}
    /\ Len(sent) < MaxCalls
    /\ \E f \in {"create_survey", "create_study"} :
          /\ fn' = f
          /\ args' = ProvisionArgs(f)
    /\ pc' = "ready"
    /\ ret' = "none"
    /\ exc' = "none"
    /\ stdout' = <<>>
    /\ reqs' = <<>>
    /\ UNCHANGED <<sent, now, uuids, table, platform>>

\* the local clock that datetime.now() reads advances
Tick ==
    /\ now < MaxClock
    /\ now' = now + 1
    /\ UNCHANGED <<pc, fn, args, ret, exc, stdout, reqs, sent, uuids, table,
                   platform>>

NextProvision ==
    \/ Invoke
    \/ Tick
    \/ CallCreateSurvey
    \/ CallCreateStudy

SpecProvision == InitProvision /\ [][NextProvision]_vars

C9_IsSurvey(r) == r.method = "POST" /\ r.url = <<"surveys">>
C9_IsStudy(r) == r.method = "POST" /\ r.url = <<"studies">>

\* the section, question and answer identifiers of a create_survey payload
C9_Ids(r) ==
    {r.data.sections[1].id, r.data.questions[1].id}
        \cup {r.data.questions[1].answers[i].id :
                  i \in 1..Len(r.data.questions[1].answers)}

C9_Code(r) == r.data.completion_codes[1].code

C9_DisjointIds ==
    \A i, j \in 1..Len(sent) :
        (i < j /\ C9_IsSurvey(sent[i]) /\ C9_IsSurvey(sent[j])) =>
            C9_Ids(sent[i]) \cap C9_Ids(sent[j]) = {}

\* each invocation sends exactly one creation POST, and nothing else sends
C9_OnePostPerCall ==
    [][IF pc = "ready" /\ pc' # "ready"
       THEN /\ Len(sent') = Len(sent) + 1
            /\ SubSeq(sent', 1, Len(sent)) = sent
            /\ IF fn = "create_survey" THEN C9_IsSurvey(sent'[Len(sent')])
               ELSE C9_IsStudy(sent'[Len(sent')])
       ELSE sent' = sent]_vars

\* C9 as claimed, its part on generated values: the identifiers of two
\* create_survey calls are disjoint and the completion codes of two
\* create_study calls are different.
C9_FreshValuesPerCall ==
    /\ C9_DisjointIds
    /\ \A i, j \in 1..Len(sent) :
          (i < j /\ C9_IsStudy(sent[i]) /\ C9_IsStudy(sent[j])) =>
              C9_Code(sent[i]) # C9_Code(sent[j])

\* C9, amended: create_survey and create_study are not idempotent: every
\* invocation sends one creation POST, none is suppressed; the identifiers
\* of two create_survey calls are disjoint; the completion codes of two
\* create_study calls differ exactly when the calls read the local clock in
\* different seconds (two calls within one second carry the same code).
C9_NotIdempotent ==
    /\ C9_OnePostPerCall
    /\ [](/\ C9_DisjointIds
          /\ \A i, j \in 1..Len(sent) :
                (i < j /\ C9_IsStudy(sent[i]) /\ C9_IsStudy(sent[j])) =>
                    (C9_Code(sent[i]) # C9_Code(sent[j])
                        <=> sent[i].at \div TicksPerSecond
                                # sent[j].at \div TicksPerSecond))

\* two create_survey calls and two create_study calls, a second apart
C9_Witness ==
    /\ Len(sent) = 4
    /\ C9_IsSurvey(sent[1]) /\ C9_IsSurvey(sent[2])
    /\ C9_IsStudy(sent[3]) /\ C9_IsStudy(sent[4])
    /\ sent[1].data.title = sent[2].data.title
    /\ C9_Ids(sent[1]) \cap C9_Ids(sent[2]) = {}
    /\ sent[3].data.reward = sent[4].data.reward
    /\ C9_Code(sent[3]) # C9_Code(sent[4])

(***************************************************************************)
(* plot_responses_by_generation                                            *)
(*                                                                         *)
(* A table is [columns, data]: the column names and the rows, each row a   *)
(* sequence of cells.  The value returned stands for the chart: the        *)
(* cross-tabulation handed to DataFrame.plot.                              *)
(***************************************************************************)

MaxPlotRows == 3

isna(cell) == cell.kind = "float" /\ cell.cls = "nan"

column_index(df, name) ==
    CHOOSE k \in 1..Len(df.columns) : df.columns[k] = name

\* df_copy['Generation'] = df_copy[age_column].apply(age_to_generation): the
\* labels row by row, or the exception of the first age that raises
generations(df, age_column) ==
    LET j == column_index(df, age_column)
        out == [i \in 1..Len(df.data) |-> age_to_generation(df.data[i][j])]
    IN  IF \E i \in 1..Len(out) : out[i].exc # "none"
        THEN Raises(out[CHOOSE i \in 1..Len(out) :
                            /\ out[i].exc # "none"
                            /\ \A k \in 1..(i - 1) : out[k].exc = "none"].exc)
        ELSE Returns([i \in 1..Len(out) |-> out[i].value])

\* df_copy with the new column
with_generation(df, labels) ==
    [columns |-> Append(df.columns, <<"Generation">>),
     data |-> [i \in 1..Len(df.data) |-> Append(df.data[i], Str(labels[i]))]]

\* the caller's table once the column is assigned
df_after_assignment_NoCopy(df, df_copy) == df_copy

\* df_copy = df.copy(): the column is assigned to the copy
df_after_assignment(df, df_copy) == df

\* pd.crosstab(rows, cols): the counts of the pairs, rows with a missing
\* value left out
crosstab(row_values, col_values) ==
    LET kept == {i \in 1..Len(row_values) :
                    ~isna(row_values[i]) /\ ~isna(col_values[i])}
        index == {row_values[i].text : i \in kept}
        columns == {col_values[i].text : i \in kept}
    IN  [index |-> index,
         columns |-> columns,
         counts |-> [c \in index \X columns |->
                       Cardinality({i \in kept :
                                      /\ row_values[i].text = c[1]
                                      /\ col_values[i].text = c[2]})]]

generation_order_Alphabetical ==
    << "Baby Boomer (60-78)", "Gen Alpha (under 18)", "Gen X (44-59)",
       "Gen Z (18-27)", "Millennial (28-43)", "Silent Generation (79+)" >>

generation_order ==
    << "Gen Alpha (under 18)", "Gen Z (18-27)", "Millennial (28-43)",
       "Gen X (44-59)", "Baby Boomer (60-78)", "Silent Generation (79+)" >>

\* crosstab.reindex(order) for labels that are all in the index
reindex(ct, order) ==
    [index |-> order,
     columns |-> ct.columns,
     counts |-> [c \in Range(order) \X ct.columns |-> ct.counts[c]]]

\* the cross-tabulation to draw, or the exception raised before drawing, and
\* the caller's table afterwards
plot_responses_by_generation(df, question_column, age_column) ==
    LET actual == find_question_column(df.columns, question_column)
        gens == generations(df, age_column)
    IN  IF actual.exc # "none" THEN [out |-> Raises(actual.exc), df |-> df]
        ELSE IF gens.pc = "raised" THEN [out |-> gens, df |-> df]
        ELSE LET df_copy == with_generation(df, gens.value)
                 ct == crosstab(column_values(df_copy, <<"Generation">>),
                                column_values(df_copy, actual.value))
                 present == SelectSeq(generation_order,
                                      LAMBDA gen : gen \in ct.index)
             IN  [out |-> Returns(reindex(ct, present)),
                  df |-> df_after_assignment(df, df_copy)]

AgeSamples ==
    {Finite(17 * AgeDen), Finite(60 * AgeDen), Finite(79 * AgeDen), NaN, Inf(1)}

AnswerCells == {Str("Yes"), Str("No"), NaN}

question_name == <<"What", " ", "did", " ", "you", " ", "eat?">>

Tables ==
    {[columns |-> << <<"Age">>, question_name >>,
      data |-> [i \in 1..Len(rows) |-> <<rows[i][1], rows[i][2]>>]] :
        rows \in SeqsUpTo(AgeSamples \X AnswerCells, MaxPlotRows)}

InitPlot ==
    /\ pc = "ready"
    /\ fn = "plot_responses_by_generation"
    /\ table \in Tables
    /\ args \in [question_column : {question_name, <<"Which", " ", "meal?">>},
                 age_column : { <<"Age">> }]
    /\ ret = "none"
    /\ exc = "none"
    /\ stdout = <<>>
    /\ reqs = <<>>
    /\ sent = <<>>
    /\ now = 0
    /\ uuids = 0
    /\ platform = <<>>

\* DataFrame.plot of a cross-tabulation without rows raises or draws an empty
\* chart, depending on the library version: both are outcomes
CallPlotResponsesByGeneration ==
    /\ pc = "ready"
    /\ fn = "plot_responses_by_generation"
    /\ LET r == plot_responses_by_generation(table, args.question_column,
                                             args.age_column)
       IN  /\ \/ /\ pc' = r.out.pc
                 /\ exc' = r.out.exc
                 /\ ret' = r.out.value
              \/ /\ r.out.pc = "returned"
                 /\ r.out.value.index = <<>>
                 /\ pc' = "raised"
                 /\ exc' = "plot error"
                 /\ ret' = "none"
           /\ table' = r.df
    /\ UNCHANGED <<fn, args, stdout, reqs, sent, now, uuids, platform>>

NextPlot == CallPlotResponsesByGeneration

SpecPlot == InitPlot /\ [][NextPlot]_vars

\* the rows of the caller's table whose answer is not missing
C10_Answered == {i \in 1..Len(table.data) : ~isna(table.data[i][2])}

\* the label age_to_generation yields for the age of a row
C10_Label(i) == age_to_generation(table.data[i][1]).value

C10_Position(label) ==
    CHOOSE k \in 1..6 :
        << "Gen Alpha (under 18)", "Gen Z (18-27)", "Millennial (28-43)",
           "Gen X (44-59)", "Baby Boomer (60-78)",
           "Silent Generation (79+)" >>[k] = label

\* the rows of the chart are in generation order, none twice
C10_InGenerationOrder ==
    \A i, j \in 1..Len(ret.index) :
        i < j => C10_Position(ret.index[i]) < C10_Position(ret.index[j])

\* each cell of the chart counts the rows of that bucket and that answer
C10_CellsCount ==
    \A g \in Range(ret.index), a \in ret.columns :
        ret.counts[<<g, a>>] =
            Cardinality({i \in C10_Answered :
                            C10_Label(i) = g /\ table.data[i][2].text = a})

C10_InputUntouched ==
    /\ <<"Generation">> \notin Range(table.columns)
    /\ table.columns = << <<"Age">>, question_name >>

\* C10 as claimed (for a chart that has rows): the rows of the
\* cross-tabulation drawn are exactly the labels age_to_generation yields
\* for the rows with a non-missing answer, in generation order, so that
\* every such row is counted in exactly one row of the chart; the caller's
\* table gets no 'Generation' column.
C10_EveryAnsweredRowCounted ==
    (/\ fn = "plot_responses_by_generation" /\ pc = "returned"
     /\ ret.index # <<>>) =>
        /\ Range(ret.index) = {C10_Label(i) : i \in C10_Answered}
        /\ C10_InGenerationOrder
        /\ C10_CellsCount
        /\ \A i \in C10_Answered :
              Cardinality({k \in 1..Len(ret.index) :
                              ret.index[k] = C10_Label(i)}) = 1
        /\ C10_InputUntouched

\* C10, amended: the rows of the cross-tabulation drawn are exactly the
\* labels, among the six generation buckets, that age_to_generation yields
\* for the rows with a non-missing answer, in generation order; every row
\* with a non-missing answer whose age maps to one of the six buckets is
\* counted in exactly one row of the chart, and the rows whose age maps to
\* 'Unknown' are not counted at all; the caller's table gets no
\* 'Generation' column.
C10_BucketRowsCounted ==
    (fn = "plot_responses_by_generation" /\ pc = "returned") =>
        /\ Range(ret.index) =
               {C10_Label(i) : i \in C10_Answered} \ {"Unknown"}
        /\ C10_InGenerationOrder
        /\ C10_CellsCount
        /\ \A i \in C10_Answered :
              Cardinality({k \in 1..Len(ret.index) :
                              ret.index[k] = C10_Label(i)})
                  = IF C10_Label(i) = "Unknown" THEN 0 ELSE 1
        /\ C10_InputUntouched

\* three answered rows: the oldest first in the table, one of unknown age;
\* the chart has the two buckets, youngest first
C10_Witness ==
    /\ fn = "plot_responses_by_generation"
    /\ pc = "returned"
    /\ Len(table.data) = 3
    /\ C10_Answered = {1, 2, 3}
    /\ C10_Label(1) = "Silent Generation (79+)"
    /\ C10_Label(2) = "Unknown"
    /\ C10_Label(3) = "Gen Alpha (under 18)"
    /\ ret.index = <<"Gen Alpha (under 18)", "Silent Generation (79+)">>

=============================================================================
